---------------------------- MODULE Spec2Model ----------------------------
(***************************************************************************)
(* Model of src/src/proof/adaptive_dimensional_switching.py:               *)
(* DimensionalNode (the hysteresis state machine) and simulate_nodes (the  *)
(* driver loop).                                                           *)
(*                                                                         *)
(* Workloads and thresholds are real numbers in the source; they are       *)
(* modelled in tenths (0.7 is 7, 1.3 is 13, -0.3 is -3), which keeps the   *)
(* order and the equalities the code's single comparison depends on.       *)
(***************************************************************************)
EXTENDS Integers, Sequences, FiniteSets, TLC

\* ------------------------------------------------------------------ bounds
\* MaxEvals   evaluations of a node driven directly by a caller
\* MaxNodes   num_nodes of a run
\* MaxSteps   steps of a run
\* MaxDraws   uniform() calls of a run: num_nodes * (1 + steps)
MaxEvals == 9
MaxNodes == 2
MaxSteps == 8
MaxDraws == 10

\* ------------------------------------------------- constants of the source
DefaultDimension == 2
DefaultThreshold == 7
DefaultBufferLimit == 3
LOW == 2
HIGH == 4

\* Workloads a caller can assign to node.workload (any float): below 0,
\* inside [0, 1] on each side of and at the thresholds, and above 1.
Signals == {-3, 2, 5, 7, 9, 13}
\* Values np.random.uniform(0, 1) can return, in tenths.
UniformDraws == {2, 7, 9}
\* Constructor arguments tried in the single-node specification.
Thresholds == {5, 7}
BufferLimits == {0, 1, 3}
Dimensions == {LOW, HIGH}

VARIABLES
    nodes,              \* node id -> the DimensionalNode's fields
    dimension_history,  \* simulate_nodes: node id -> list of dimensions
    num_nodes,          \* simulate_nodes argument
    steps,              \* simulate_nodes argument
    step,               \* simulate_nodes: the outer loop variable
    idx,                \* simulate_nodes: position of the inner loop in nodes
    pc,                 \* simulate_nodes: position in the function
    drawn,              \* history: <<node id, value>> of every uniform() call
    obs                 \* history: per node, what its evaluations did

vars == <<nodes, dimension_history, num_nodes, steps, step, idx, pc, drawn, obs>>

Max(a, b) == IF a >= b THEN a ELSE b

\* range(n) of Python: empty for n <= 0.
Range(n) == 0 .. (n - 1)

\* ------------------------------------------------------ DimensionalNode
\* DimensionalNode.__init__
NewNode(id, workload, dimension, threshold, buffer_limit) ==
    [id |-> id, workload |-> workload, dimension |-> dimension,
     transition_buffer |-> 0, threshold |-> threshold,
     buffer_limit |-> buffer_limit]

\* The test of line 34.
AboveThreshold_ge(n) == n.workload >= n.threshold
AboveThreshold(n) == n.workload > n.threshold

\* The test of line 37, on the incremented buffer b.
ExceedsLimit_ge(n, b) == b >= n.buffer_limit
ExceedsLimit(n, b) == b > n.buffer_limit

\* The new buffer of line 42.
Decremented_nofloor(b) == b - 1
Decremented_reset(b) == 0
Decremented(b) == Max(0, b - 1)

\* The if-branch, lines 35-39.
IncreaseBuffer_saturating(n) ==
    LET b == IF n.transition_buffer > n.buffer_limit
             THEN n.transition_buffer ELSE n.transition_buffer + 1
    IN [n EXCEPT !.transition_buffer = b,
                 !.dimension = IF ExceedsLimit(n, b) THEN HIGH ELSE @]
IncreaseBuffer(n) ==
    LET b == n.transition_buffer + 1
    IN [n EXCEPT !.transition_buffer = b,
                 !.dimension = IF ExceedsLimit(n, b) THEN HIGH ELSE @]

\* The else-branch, lines 41-46.
DecreaseBuffer_eager(n) ==
    LET b == Decremented(n.transition_buffer)
    IN [n EXCEPT !.transition_buffer = b, !.dimension = LOW]
DecreaseBuffer_noreset(n) ==
    [n EXCEPT !.transition_buffer = Decremented(n.transition_buffer)]
DecreaseBuffer(n) ==
    LET b == Decremented(n.transition_buffer)
    IN [n EXCEPT !.transition_buffer = b,
                 !.dimension = IF b = 0 THEN LOW ELSE @]

\* DimensionalNode.evaluate_workload
evaluate_workload_validating(n) ==
    IF n.workload < 0 \/ n.workload > 10 THEN n
    ELSE IF AboveThreshold(n) THEN IncreaseBuffer(n) ELSE DecreaseBuffer(n)
evaluate_workload(n) ==
    IF AboveThreshold(n) THEN IncreaseBuffer(n) ELSE DecreaseBuffer(n)

\* DimensionalNode.update, with the value np.random.uniform(0, 1) returned.
update_stale(n, draw) == [evaluate_workload(n) EXCEPT !.workload = draw]
update(n, draw) == evaluate_workload([n EXCEPT !.workload = draw])

\* ------------------------------------------------ history of a node
\* Nothing evaluated yet.
NoObs(dimension) ==
    [evals |-> 0, init_dim |-> dimension,
     sig |-> 0, pbuf |-> 0, pdim |-> dimension,
     kind |-> "none", len |-> 0, buf0 |-> 0, dim0 |-> dimension]

\* One call of evaluate_workload on node `before`.
\*   evals       the number of calls so far
\*   sig         the workload the call evaluated
\*   pbuf, pdim  buffer and dimension before the call
\*   kind, len   the run of consecutive calls on the same side of the
\*               threshold that the call belongs to, and its length
\*   buf0, dim0  buffer and dimension before the first call of that run
Observe(o, before) ==
    LET k == IF before.workload > before.threshold THEN "above" ELSE "below"
        same == o.kind = k
    IN [o EXCEPT !.evals = @ + 1,
                 !.sig = before.workload,
                 !.pbuf = before.transition_buffer,
                 !.pdim = before.dimension,
                 !.kind = k,
                 !.len = IF same THEN @ + 1 ELSE 1,
                 !.buf0 = IF same THEN @ ELSE before.transition_buffer,
                 !.dim0 = IF same THEN @ ELSE before.dimension]

\* ------------------------------------- a single node driven by a caller
\* (what the unit tests do: construct, assign node.workload, evaluate, update)
InitNode ==
    /\ \E w \in Signals, d \in Dimensions, t \in Thresholds, l \in BufferLimits :
          /\ nodes = [i \in {0} |-> NewNode(0, w, d, t, l)]
          /\ obs = [i \in {0} |-> NoObs(d)]
    /\ dimension_history = [i \in {0} |-> <<>>]
    /\ num_nodes = 1
    /\ steps = 0
    /\ step = 0
    /\ idx = 0
    /\ pc = "caller"
    /\ drawn = <<>>

\* node.workload = s (line 118)
AssignWorkload(i, s) ==
    /\ pc = "caller"
    /\ nodes' = [nodes EXCEPT ![i].workload = s]
    /\ UNCHANGED <<dimension_history, num_nodes, steps, step, idx, pc, drawn, obs>>

\* node.evaluate_workload()
EvaluateWorkload(i) ==
    /\ pc = "caller"
    /\ obs[i].evals < MaxEvals
    /\ nodes' = [nodes EXCEPT ![i] = evaluate_workload(@)]
    /\ obs' = [obs EXCEPT ![i] = Observe(@, nodes[i])]
    /\ UNCHANGED <<dimension_history, num_nodes, steps, step, idx, pc, drawn>>

\* node.update()
Update(i, draw) ==
    /\ pc = "caller"
    /\ obs[i].evals < MaxEvals
    /\ nodes' = [nodes EXCEPT ![i] = update(@, draw)]
    /\ obs' = [obs EXCEPT ![i] =
                  Observe(@, [nodes[i] EXCEPT !.workload = draw])]
    /\ UNCHANGED <<dimension_history, num_nodes, steps, step, idx, pc, drawn>>

NextNode ==
    \/ \E i \in DOMAIN nodes, s \in Signals : AssignWorkload(i, s)
    \/ \E i \in DOMAIN nodes : EvaluateWorkload(i)
    \/ \E i \in DOMAIN nodes, d \in UniformDraws : Update(i, d)

SpecNode == InitNode /\ [][NextNode]_vars


\* ------------------------------------------------------ simulate_nodes
\* The list comprehension of line 62 with its draws ws, and line 65.
CreateNodes(n, ws) ==
    [i \in Range(n) |->
        NewNode(i, ws[i], DefaultDimension, DefaultThreshold, DefaultBufferLimit)]

\* The uniform() calls of line 62, in the order they are made.
RECURSIVE InitialDraws(_, _)
InitialDraws(n, ws) ==
    IF n <= 0 THEN <<>>
    ELSE Append(InitialDraws(n - 1, ws), <<n - 1, ws[n - 1]>>)

\* simulate_nodes(num_nodes, steps) has run up to the first loop test,
\* its uniform() calls returning values of D.
Created(D) ==
    /\ num_nodes \in -1 .. MaxNodes
    /\ steps \in -1 .. MaxSteps
    /\ Max(num_nodes, 0) * (1 + Max(steps, 0)) <= MaxDraws
    /\ \E ws \in [Range(num_nodes) -> D] :
          /\ nodes = CreateNodes(num_nodes, ws)
          /\ drawn = InitialDraws(num_nodes, ws)
    /\ dimension_history = [i \in Range(num_nodes) |-> <<>>]
    /\ obs = [i \in Range(num_nodes) |-> NoObs(DefaultDimension)]
    /\ step = 0
    /\ idx = 0
    /\ pc = "for_step"

Init == Created(UniformDraws)

\* Line 71: dimension_history[node.id].append(node.dimension)
Record(h, n) == [h EXCEPT ![n.id] = Append(@, n.dimension)]

\* Lines 70-72 for the node at position k of the list, whose update()
\* draws `draw`: the new nodes, history and log of draws.
UpdateAndRecord_sharedbuffer(k, draw) ==
    /\ nodes' = [j \in DOMAIN nodes |->
                    IF j = k THEN update(nodes[k], draw)
                    ELSE [nodes[j] EXCEPT !.transition_buffer =
                                             update(nodes[k], draw).transition_buffer]]
    /\ dimension_history' = Record(dimension_history, nodes'[k])
    /\ drawn' = Append(drawn, <<nodes[k].id, draw>>)
    /\ obs' = [obs EXCEPT ![k] =
                  Observe(@, [nodes[k] EXCEPT !.workload = draw])]
UpdateAndRecord_stale(k, draw) ==
    /\ nodes' = [nodes EXCEPT ![k] = update(@, draw)]
    /\ dimension_history' = Record(dimension_history, nodes[k])
    /\ drawn' = Append(drawn, <<nodes[k].id, draw>>)
    /\ obs' = [obs EXCEPT ![k] =
                  Observe(@, [nodes[k] EXCEPT !.workload = draw])]
UpdateAndRecord(k, draw) ==
    /\ nodes' = [nodes EXCEPT ![k] = update(@, draw)]
    /\ dimension_history' = Record(dimension_history, nodes'[k])
    /\ drawn' = Append(drawn, <<nodes[k].id, draw>>)
    /\ obs' = [obs EXCEPT ![k] =
                  Observe(@, [nodes[k] EXCEPT !.workload = draw])]

\* Line 67: the outer loop takes its next step.
ForStep_offbyone ==
    /\ pc = "for_step"
    /\ step < steps - 1
    /\ pc' = "for_node"
    /\ idx' = 0
    /\ UNCHANGED <<nodes, dimension_history, num_nodes, steps, step, drawn, obs>>
ForStep ==
    /\ pc = "for_step"
    /\ step < steps
    /\ pc' = "for_node"
    /\ idx' = 0
    /\ UNCHANGED <<nodes, dimension_history, num_nodes, steps, step, drawn, obs>>

\* Lines 69-72: the inner loop's body for the next node of the list.
ForNode_first(draw) ==
    /\ pc = "for_node"
    /\ idx < num_nodes
    /\ UpdateAndRecord(0, draw)
    /\ idx' = idx + 1
    /\ UNCHANGED <<num_nodes, steps, step, pc>>
ForNode(draw) ==
    /\ pc = "for_node"
    /\ idx < num_nodes
    /\ UpdateAndRecord(idx, draw)
    /\ idx' = idx + 1
    /\ UNCHANGED <<num_nodes, steps, step, pc>>

\* Line 69: the inner loop is exhausted; back to line 67.
EndStep ==
    /\ pc = "for_node"
    /\ idx >= num_nodes
    /\ step' = step + 1
    /\ pc' = "for_step"
    /\ UNCHANGED <<nodes, dimension_history, num_nodes, steps, idx, drawn, obs>>

\* Line 74: the outer loop is exhausted; return dimension_history.
Return ==
    /\ pc = "for_step"
    /\ step >= steps
    /\ pc' = "returned"
    /\ UNCHANGED <<nodes, dimension_history, num_nodes, steps, step, idx, drawn, obs>>

Next ==
    \/ ForStep
    \/ \E d \in UniformDraws : ForNode(d)
    \/ EndStep
    \/ Return

Spec == Init /\ [][Next]_vars

\* simulate_nodes is one thread of straight-line Python: a statement that
\* can run does run, which is weak fairness of its next step.
SpecFair == Init /\ [][Next]_vars /\ WF_vars(Next)

\* ------------------------------- simulate_nodes, nodes taken in any order
\* The inner loop's body (lines 70-72) for any node that this step has not
\* updated yet, instead of the next node of the list: the executions that
\* spec section 5 allows (nodes of a step evaluated in any order). The
\* uniform() calls still come from the one generator, in the order made.
AnyOrderDraws == {2, 9}

InitAnyOrder == Created(AnyOrderDraws)

Pending(i) == Len(dimension_history[nodes[i].id]) = step

AnyNode(i, draw) ==
    /\ pc = "for_node"
    /\ Pending(i)
    /\ UpdateAndRecord(i, draw)
    /\ idx' = idx + 1
    /\ UNCHANGED <<num_nodes, steps, step, pc>>

NextAnyOrder ==
    \/ ForStep
    \/ \E i \in DOMAIN nodes, d \in AnyOrderDraws : AnyNode(i, d)
    \/ EndStep
    \/ Return

SpecAnyOrder == InitAnyOrder /\ [][NextAnyOrder]_vars

\* ------------------------------------------------- TestDimensionalNode
\* test_transition_to_4d (lines 96-105) and test_reset_to_2d (lines
\* 107-121) as programs: `step` is the loop variable, pc the position.
\*   t4d_loop    line 103      r2d_loop1   line 113
\*   t4d_assert  line 105      r2d_loop2   line 117
\*                             r2d_assert  line 121
TestUpdates == 5
TestWorkload == 10
ForcedWorkload == 0
TestThreshold == 7
TestBufferLimit == 3

\* Lines 101 and 112: the node of either test, before its first loop.
InitTest ==
    /\ \E k \in {0, 1} :
          /\ nodes = [i \in {k} |->
                NewNode(k, TestWorkload, DefaultDimension, TestThreshold, TestBufferLimit)]
          /\ obs = [i \in {k} |-> NoObs(DefaultDimension)]
          /\ dimension_history = [i \in {k} |-> <<>>]
          /\ pc = IF k = 0 THEN "t4d_loop" ELSE "r2d_loop1"
    /\ num_nodes = 1
    /\ steps = 0
    /\ step = 0
    /\ idx = 0
    /\ drawn = <<>>

\* Lines 103-104 and 113-114: node.update()
TestUpdate(draw) ==
    /\ pc \in {"t4d_loop", "r2d_loop1"}
    /\ step < TestUpdates
    /\ \E k \in DOMAIN nodes :
          /\ nodes' = [nodes EXCEPT ![k] = update(@, draw)]
          /\ obs' = [obs EXCEPT ![k] =
                        Observe(@, [nodes[k] EXCEPT !.workload = draw])]
    /\ step' = step + 1
    /\ UNCHANGED <<dimension_history, num_nodes, steps, idx, pc, drawn>>

\* The first loop is exhausted: on to line 105, or to line 117.
TestUpdatesDone ==
    /\ pc \in {"t4d_loop", "r2d_loop1"}
    /\ step >= TestUpdates
    /\ pc' = IF pc = "t4d_loop" THEN "t4d_assert" ELSE "r2d_loop2"
    /\ step' = 0
    /\ UNCHANGED <<nodes, dimension_history, num_nodes, steps, idx, drawn, obs>>

\* Lines 117-119: node.workload = 0.0; node.update()
TestForceLow(draw) ==
    /\ pc = "r2d_loop2"
    /\ step < TestUpdates
    /\ \E k \in DOMAIN nodes :
          LET forced == [nodes[k] EXCEPT !.workload = ForcedWorkload]
          IN /\ nodes' = [nodes EXCEPT ![k] = update(forced, draw)]
             /\ obs' = [obs EXCEPT ![k] =
                           Observe(@, [forced EXCEPT !.workload = draw])]
    /\ step' = step + 1
    /\ UNCHANGED <<dimension_history, num_nodes, steps, idx, pc, drawn>>

\* The second loop is exhausted: on to line 121.
TestForceLowDone ==
    /\ pc = "r2d_loop2"
    /\ step >= TestUpdates
    /\ pc' = "r2d_assert"
    /\ UNCHANGED <<nodes, dimension_history, num_nodes, steps, step, idx, drawn, obs>>

NextTest ==
    \/ \E d \in UniformDraws : TestUpdate(d)
    \/ TestUpdatesDone
    \/ \E d \in UniformDraws : TestForceLow(d)
    \/ TestForceLowDone

SpecTest == InitTest /\ [][NextTest]_vars

\* ---------------------------------------------- claims on a single node
Node(i) == nodes[i]

\* Node i has been evaluated at least once since it was constructed.
Evaluated(i) == obs[i].evals > 0

\* C1: the transition buffer is never negative, whatever the workloads
\* evaluated and their order; evaluating a workload at or below the
\* threshold with the buffer at 0 leaves the buffer at 0.
C1_BufferNeverNegative ==
    \A i \in DOMAIN nodes :
        /\ Node(i).transition_buffer >= 0
        /\ (Evaluated(i) /\ obs[i].sig <= Node(i).threshold /\ obs[i].pbuf = 0)
              => Node(i).transition_buffer = 0

\* C1 witness: a buffer that had been positive was drained and then
\* evaluated below the threshold again at 0.
C1_Witness ==
    \E i \in DOMAIN nodes :
        /\ obs[i].kind = "below" /\ obs[i].buf0 >= 1
        /\ obs[i].len >= obs[i].buf0 + 2
        /\ obs[i].pbuf = 0
        /\ Node(i).transition_buffer = 0

\* C2: a node constructed in dimension 2 whose evaluations so far were all
\* strictly above the threshold has counted each of them, is in dimension 2
\* after each of the first buffer_limit evaluations, and is in dimension 4
\* after evaluation buffer_limit + 1.
C2_HighExactlyAfterLimitPlusOne ==
    \A i \in DOMAIN nodes :
        ( /\ obs[i].init_dim = LOW
          /\ obs[i].kind = "above"
          /\ obs[i].len = obs[i].evals
          /\ obs[i].evals <= Node(i).buffer_limit + 1 )
        => /\ Node(i).transition_buffer = obs[i].evals
           /\ Node(i).dimension =
                 IF obs[i].evals = Node(i).buffer_limit + 1 THEN HIGH ELSE LOW

\* C2 witness: threshold 0.7, buffer_limit 3, four evaluations above the
\* threshold, the fourth taking dimension 2 to dimension 4.
C2_Witness ==
    \E i \in DOMAIN nodes :
        /\ Node(i).threshold = 7 /\ Node(i).buffer_limit = 3
        /\ obs[i].init_dim = LOW
        /\ obs[i].kind = "above" /\ obs[i].len = 4 /\ obs[i].evals = 4
        /\ obs[i].sig = 9
        /\ obs[i].pdim = LOW /\ Node(i).dimension = HIGH

\* C3: in a run of consecutive evaluations at or below the threshold that
\* began in dimension 4 with buffer c >= 1, the buffer after k evaluations
\* is max(0, c - k) and the dimension is 4 while k < c and 2 from k = c on;
\* and an evaluation takes dimension 4 to dimension 2 if and only if its
\* workload is at or below the threshold and the buffer after it is 0.
C3_LowExactlyWhenDrained ==
    \A i \in DOMAIN nodes :
        /\ (obs[i].kind = "below" /\ obs[i].dim0 = HIGH /\ obs[i].buf0 >= 1)
              => /\ Node(i).transition_buffer = Max(0, obs[i].buf0 - obs[i].len)
                 /\ Node(i).dimension =
                       IF obs[i].len >= obs[i].buf0 THEN LOW ELSE HIGH
        /\ (Evaluated(i) /\ obs[i].pdim = HIGH)
              => ( Node(i).dimension = LOW
                   <=> ( /\ obs[i].sig <= Node(i).threshold
                         /\ Node(i).transition_buffer = 0 ) )

\* C3 witness: dimension 4 with buffer 4, then four evaluations at or below
\* the threshold; the fourth empties the buffer and gives dimension 2.
C3_Witness ==
    \E i \in DOMAIN nodes :
        /\ obs[i].init_dim = LOW /\ Node(i).buffer_limit = 3
        /\ obs[i].kind = "below" /\ obs[i].dim0 = HIGH /\ obs[i].buf0 = 4
        /\ obs[i].len = 4
        /\ obs[i].pbuf = 1 /\ obs[i].pdim = HIGH
        /\ Node(i).transition_buffer = 0 /\ Node(i).dimension = LOW

\* C4: for a node constructed in dimension 2, an evaluation takes
\* dimension 2 to dimension 4 only as the last of more than buffer_limit
\* consecutive evaluations above the threshold.
C4_HighOnlyAfterConsecutiveRun ==
    \A i \in DOMAIN nodes :
        ( /\ obs[i].init_dim = LOW
          /\ Evaluated(i)
          /\ obs[i].pdim = LOW /\ Node(i).dimension = HIGH )
        => /\ obs[i].kind = "above"
           /\ obs[i].len > Node(i).buffer_limit

\* C5: an evaluation that leaves the buffer between 1 and buffer_limit
\* leaves the dimension as it was before the evaluation.
C5_DeadZoneKeepsDimension ==
    \A i \in DOMAIN nodes :
        ( /\ Evaluated(i)
          /\ Node(i).transition_buffer >= 1
          /\ Node(i).transition_buffer <= Node(i).buffer_limit )
        => Node(i).dimension = obs[i].pdim

\* C5 witness: a node in dimension 4 evaluated at or below the threshold,
\* its buffer falling into 1..buffer_limit, still in dimension 4.
C5_Witness ==
    \E i \in DOMAIN nodes :
        /\ Evaluated(i)
        /\ obs[i].init_dim = LOW
        /\ obs[i].sig <= Node(i).threshold
        /\ obs[i].pdim = HIGH /\ Node(i).dimension = HIGH
        /\ obs[i].pbuf = Node(i).buffer_limit + 1
        /\ Node(i).transition_buffer = Node(i).buffer_limit
        /\ Node(i).buffer_limit >= 1

\* C6: an evaluation of a workload equal to the threshold decrements the
\* buffer by 1, floored at 0, never increments it, and sets dimension 2 if
\* the buffer is then 0 (and leaves the dimension alone otherwise).
C6_EqualIsNotAbove ==
    \A i \in DOMAIN nodes :
        (Evaluated(i) /\ obs[i].sig = Node(i).threshold)
        => /\ Node(i).transition_buffer = Max(0, obs[i].pbuf - 1)
           /\ Node(i).transition_buffer <= obs[i].pbuf
           /\ Node(i).dimension =
                 IF Node(i).transition_buffer = 0 THEN LOW ELSE obs[i].pdim

\* C6 witness: a workload equal to the threshold evaluated in dimension 4
\* with buffer 1: the buffer falls to 0 and the dimension to 2.
C6_Witness ==
    \E i \in DOMAIN nodes :
        /\ Evaluated(i)
        /\ obs[i].init_dim = LOW
        /\ obs[i].sig = Node(i).threshold
        /\ obs[i].pbuf = 1 /\ obs[i].pdim = HIGH
        /\ Node(i).transition_buffer = 0 /\ Node(i).dimension = LOW

\* A workload outside [0, 1].
OutOfRange(s) == s < 0 \/ s > 10

\* C8: a workload outside [0, 1] is evaluated like any other: evaluation
\* is never refused, and the buffer and dimension after it are those the
\* comparison with the threshold gives by the normal rules.
C8_OutOfRangeEvaluatedNormally ==
    \A i \in DOMAIN nodes :
        /\ (pc = "caller" /\ obs[i].evals < MaxEvals) => ENABLED EvaluateWorkload(i)
        /\ (Evaluated(i) /\ OutOfRange(obs[i].sig))
              => IF obs[i].sig > Node(i).threshold
                 THEN /\ Node(i).transition_buffer = obs[i].pbuf + 1
                      /\ Node(i).dimension =
                            IF Node(i).transition_buffer > Node(i).buffer_limit
                            THEN HIGH ELSE obs[i].pdim
                 ELSE /\ Node(i).transition_buffer = Max(0, obs[i].pbuf - 1)
                      /\ Node(i).dimension =
                            IF Node(i).transition_buffer = 0
                            THEN LOW ELSE obs[i].pdim

\* C8 witness: a workload of 1.3 evaluated on a node with buffer_limit 3,
\* taking it from dimension 2 to dimension 4.
C8_Witness ==
    \E i \in DOMAIN nodes :
        /\ Evaluated(i)
        /\ obs[i].init_dim = LOW /\ Node(i).buffer_limit = 3
        /\ obs[i].sig = 13
        /\ obs[i].pbuf = 3
        /\ obs[i].pdim = LOW /\ Node(i).dimension = HIGH

\* C16: one evaluation changes the buffer by at most one: it adds exactly 1
\* when, and only when, the workload evaluated is strictly above the
\* threshold; otherwise it takes 1 away, or leaves the buffer at 0.
C16_BufferMovesByOne ==
    \A i \in DOMAIN nodes :
        Evaluated(i) =>
            /\ Node(i).transition_buffer - obs[i].pbuf \in {-1, 0, 1}
            /\ Node(i).transition_buffer = obs[i].pbuf + 1
                  <=> obs[i].sig > Node(i).threshold
            /\ obs[i].sig <= Node(i).threshold =>
                  /\ Node(i).transition_buffer <= obs[i].pbuf
                  /\ Node(i).transition_buffer = obs[i].pbuf => obs[i].pbuf = 0

\* C16 witness: a node already in dimension 4, its buffer above
\* buffer_limit, evaluated above the threshold once more: the buffer
\* still grows by 1.
C16_Witness ==
    \E i \in DOMAIN nodes :
        /\ Evaluated(i)
        /\ obs[i].init_dim = LOW
        /\ obs[i].sig > Node(i).threshold
        /\ obs[i].pdim = HIGH
        /\ obs[i].pbuf = Node(i).buffer_limit + 2
        /\ Node(i).transition_buffer = Node(i).buffer_limit + 3

\* C18: an evaluation takes dimension 2 to dimension 4 only if its
\* workload is strictly above the threshold and the buffer after it is
\* strictly above buffer_limit; an evaluation from dimension 2 that leaves
\* the buffer equal to buffer_limit leaves dimension 2.
C18_HighOnlyAboveLimit ==
    \A i \in DOMAIN nodes :
        (Evaluated(i) /\ obs[i].pdim = LOW) =>
            /\ Node(i).dimension = HIGH =>
                  /\ obs[i].sig > Node(i).threshold
                  /\ Node(i).transition_buffer > Node(i).buffer_limit
            /\ Node(i).transition_buffer = Node(i).buffer_limit =>
                  Node(i).dimension = LOW

\* C18 witness: an evaluation above the threshold that brought the buffer
\* exactly to buffer_limit 3, the node still in dimension 2.
C18_Witness ==
    \E i \in DOMAIN nodes :
        /\ Evaluated(i)
        /\ obs[i].sig > Node(i).threshold
        /\ obs[i].pbuf = 2 /\ obs[i].pdim = LOW
        /\ Node(i).buffer_limit = 3
        /\ Node(i).transition_buffer = 3 /\ Node(i).dimension = LOW

\* C20: for a node constructed in dimension 2 (buffer 0) with a
\* buffer_limit that is not negative, in every state: a buffer above
\* buffer_limit implies dimension 4, and dimension 4 implies a buffer of at
\* least 1; so a node in dimension 2 has a buffer of at most buffer_limit
\* and a node with buffer 0 is in dimension 2.
C20_BufferAndDimensionLinked ==
    \A i \in DOMAIN nodes :
        (obs[i].init_dim = LOW /\ Node(i).buffer_limit >= 0) =>
            /\ Node(i).transition_buffer > Node(i).buffer_limit
                  => Node(i).dimension = HIGH
            /\ Node(i).dimension = HIGH => Node(i).transition_buffer >= 1
            /\ Node(i).dimension = LOW
                  => Node(i).transition_buffer <= Node(i).buffer_limit
            /\ Node(i).transition_buffer = 0 => Node(i).dimension = LOW

\* C20 witness: a node constructed in dimension 2 that went to dimension 4
\* and was drained since: in dimension 4 with buffer 1, below
\* buffer_limit 3.
C20_Witness ==
    \E i \in DOMAIN nodes :
        /\ obs[i].init_dim = LOW /\ Node(i).buffer_limit = 3
        /\ obs[i].kind = "below"
        /\ Node(i).dimension = HIGH /\ Node(i).transition_buffer = 1

\* C22: the buffer has no upper cap. After a run of n consecutive
\* evaluations above the threshold that began with buffer 0 the buffer is
\* n, for every n; and in a run of m consecutive evaluations at or below
\* the threshold that began in dimension 4 with buffer b, the buffer is
\* max(0, b - m) and the node is back in dimension 2 exactly when m >= b.
C22_BufferDoesNotSaturate ==
    \A i \in DOMAIN nodes :
        /\ (obs[i].kind = "above" /\ obs[i].buf0 = 0)
              => Node(i).transition_buffer = obs[i].len
        /\ obs[i].kind = "below"
              => /\ Node(i).transition_buffer = Max(0, obs[i].buf0 - obs[i].len)
                 /\ obs[i].dim0 = HIGH
                       => (Node(i).dimension = LOW <=> obs[i].len >= obs[i].buf0)

\* C22 witness: a node of buffer_limit 1, constructed in dimension 2,
\* evaluated 8 times: the last 4 at or below the threshold, begun with
\* buffer 4 (so the first 4 were all above it); dimension 4 was kept
\* through the third of them and the fourth gave dimension 2.
C22_Witness ==
    \E i \in DOMAIN nodes :
        /\ obs[i].init_dim = LOW /\ Node(i).buffer_limit = 1
        /\ obs[i].evals = 8
        /\ obs[i].kind = "below" /\ obs[i].len = 4
        /\ obs[i].buf0 = 4 /\ obs[i].dim0 = HIGH
        /\ obs[i].pbuf = 1 /\ obs[i].pdim = HIGH
        /\ Node(i).transition_buffer = 0 /\ Node(i).dimension = LOW

\* --------------------------------------------------- claims on the driver
\* The configuration spec section 7 calls invalid. simulate_nodes builds
\* its nodes with the default threshold and buffer_limit, so within a run
\* only the two counts can be invalid.
InvalidNode(n) ==
    n.buffer_limit <= 0 \/ n.threshold <= 0 \/ n.threshold >= 10
InvalidConfiguration ==
    \/ num_nodes <= 0
    \/ steps < 0
    \/ \E i \in DOMAIN nodes : InvalidNode(nodes[i])

\* C7: under an invalid configuration the run is rejected: it does not
\* return a history, and no node is evaluated.
C7_InvalidConfigurationRejected ==
    InvalidConfiguration =>
        /\ pc # "returned"
        /\ \A i \in DOMAIN nodes : ~Evaluated(i)

\* C9, at the return: the keys are 0 .. num_nodes - 1, every history has
\* steps entries (none when steps is 0), each 2 or 4.
C9_Returned ==
    (pc = "returned" /\ steps >= 0) =>
        /\ DOMAIN dimension_history = Range(num_nodes)
        /\ \A i \in DOMAIN dimension_history :
              /\ Len(dimension_history[i]) = steps
              /\ \A t \in 1 .. Len(dimension_history[i]) :
                    dimension_history[i][t] \in {LOW, HIGH}
              /\ steps = 0 => dimension_history[i] = <<>>

\* C9, during the run: a node's history has one entry per evaluation of
\* the node, the last one being the node's dimension now.
C9_UpToDate ==
    \A i \in DOMAIN nodes :
        /\ Len(dimension_history[i]) = obs[i].evals
        /\ Len(dimension_history[i]) > 0 =>
              dimension_history[i][Len(dimension_history[i])] = nodes[i].dimension

\* C9, each step of the run: a history changes only by gaining, at its
\* end, the dimension its node has right after an evaluation of that node.
C9_AppendOnly ==
    \A i \in DOMAIN nodes :
        \/ dimension_history'[i] = dimension_history[i]
        \/ /\ obs'[i].evals = obs[i].evals + 1
           /\ dimension_history'[i] = Append(dimension_history[i], nodes'[i].dimension)

\* C9: the returned mapping has the keys 0 .. num_nodes - 1, every history
\* has exactly steps entries, each 2 or 4, and entry t is the node's
\* dimension right after its t-th evaluation; with steps = 0 every history
\* is empty.
C9_HistoryOfEveryEvaluation ==
    [](C9_Returned /\ C9_UpToDate) /\ [][C9_AppendOnly]_vars

\* C9 witness: a returned run of 2 nodes and 4 steps in which node 0 ends
\* in dimension 4 and node 1 does not.
C9_Witness ==
    /\ pc = "returned" /\ num_nodes = 2 /\ steps = 4
    /\ dimension_history[0] = <<LOW, LOW, LOW, HIGH>>
    /\ dimension_history[1] = <<LOW, LOW, LOW, LOW>>

\* The values the generator returned, in the order of the calls.
Stream == [k \in 1 .. Len(drawn) |-> drawn[k][2]]

\* The values update() gave node i, in order (the first num_nodes calls
\* are the constructor's).
RECURSIVE ReceivedFrom(_, _)
ReceivedFrom(i, k) ==
    IF k > Len(drawn) THEN <<>>
    ELSE IF drawn[k][1] = i THEN <<drawn[k][2]>> \o ReceivedFrom(i, k + 1)
    ELSE ReceivedFrom(i, k + 1)
Received(i) == ReceivedFrom(i, Max(num_nodes, 0) + 1)

\* The values update() gives node i when the nodes take their draws from
\* the stream in list order, step after step.
SequentialShare(i) ==
    [s \in 1 .. Max(steps, 0) |-> Stream[num_nodes + (s - 1) * num_nodes + i + 1]]

\* The dimensions of node n after each of the updates drawing sigs.
RECURSIVE DimensionsAfter(_, _)
DimensionsAfter(n, sigs) ==
    IF sigs = <<>> THEN <<>>
    ELSE LET n2 == update(n, Head(sigs))
         IN <<n2.dimension>> \o DimensionsAfter(n2, Tail(sigs))

\* Node i as simulate_nodes constructs it.
Fresh(i) ==
    NewNode(i, Stream[i + 1], DefaultDimension, DefaultThreshold, DefaultBufferLimit)

C11_Frame ==
    /\ \A j \in DOMAIN nodes :
          /\ nodes'[j].id = nodes[j].id
          /\ nodes'[j].threshold = nodes[j].threshold
          /\ nodes'[j].buffer_limit = nodes[j].buffer_limit
          /\ obs'[j].evals = obs[j].evals => nodes'[j] = nodes[j]
    /\ Cardinality({j \in DOMAIN nodes : obs'[j].evals # obs[j].evals}) <= 1

\* C11: updating (and so evaluating) one node changes only that node's
\* workload, buffer and dimension: every other node of the run, and the
\* node's own id, threshold and buffer_limit, are as before the call.
C11_UpdateChangesOnlyItsNode == [][C11_Frame]_vars

\* C11 witness: in a run of 2 nodes, node 0 has been updated once and its
\* buffer has changed, and node 1 is still exactly as constructed.
C11_Witness ==
    /\ num_nodes = 2
    /\ obs[0].evals = 1 /\ obs[1].evals = 0
    /\ nodes[0].transition_buffer = 1
    /\ nodes[1] = Fresh(1)

\* C12: two nodes whose last evaluations started from the same buffer and
\* dimension, with the same threshold and buffer_limit, and evaluated the
\* same workload, have the same buffer and the same dimension.
C12_EvaluateDeterministic ==
    \A i, j \in DOMAIN nodes :
        ( /\ Evaluated(i) /\ Evaluated(j)
          /\ obs[i].pbuf = obs[j].pbuf
          /\ obs[i].pdim = obs[j].pdim
          /\ obs[i].sig = obs[j].sig
          /\ nodes[i].threshold = nodes[j].threshold
          /\ nodes[i].buffer_limit = nodes[j].buffer_limit )
        => /\ nodes[i].transition_buffer = nodes[j].transition_buffer
           /\ nodes[i].dimension = nodes[j].dimension

\* C12 witness: two nodes constructed with different workloads, each last
\* evaluated from buffer 3 in dimension 2 with workload 0.9, both then in
\* dimension 4 with buffer 4.
C12_Witness ==
    /\ num_nodes = 2
    /\ Stream[1] # Stream[2]
    /\ \A i \in {0, 1} :
          /\ obs[i].pbuf = 3 /\ obs[i].pdim = LOW /\ obs[i].sig = 9
          /\ nodes[i].transition_buffer = 4 /\ nodes[i].dimension = HIGH

\* simulate_nodes as a function of its arguments and of the values the
\* generator returns: lines 67-72 from call number pos of the generator
\* on, the calls going to the nodes in list order, step after step.
RECURSIVE RunFrom(_, _, _, _)
RunFrom(ns, h, pos, stream) ==
    IF pos > Len(stream) THEN h
    ELSE LET n == Cardinality(DOMAIN ns)
             k == (pos - 1) % n
             n2 == update(ns[k], stream[pos])
         IN RunFrom([ns EXCEPT ![k] = n2], Record(h, n2), pos + 1, stream)

\* simulate_nodes(n, st) when the generator returns stream: the first n
\* values go to the constructors (line 62), the next n * st to the updates.
SimulateNodes(n, st, stream) ==
    RunFrom(CreateNodes(n, [i \in Range(n) |-> stream[i + 1]]),
            [i \in Range(n) |-> <<>>],
            Max(n, 0) + 1,
            SubSeq(stream, 1, Max(n, 0) * (1 + Max(st, 0))))

\* C13: the returned histories are a function of num_nodes, steps and the
\* sequence of values the generator returned: they are what simulate_nodes
\* computes from these three.
C13_RunDeterministic ==
    pc = "returned" =>
        dimension_history = SimulateNodes(num_nodes, steps, Stream)

\* C13 witness: a returned run of 2 nodes and 4 steps that drew 0.9 for
\* node 0 four times, and whose node 1 was given a 0.7 and stayed in
\* dimension 2.
C13_Witness ==
    /\ pc = "returned" /\ num_nodes = 2 /\ steps = 4
    /\ Len(Stream) = 10
    /\ \A s \in 1 .. 4 : Stream[2 * s + 1] = 9
    /\ Stream[4] = 7
    /\ dimension_history[0][4] = HIGH
    /\ dimension_history[1][4] = LOW


\* The update() calls the loop of lines 67-72 has made: the draws logged
\* since the nodes were constructed.
UpdatesPerformed == Len(drawn) - Max(num_nodes, 0)

\* C17: simulate_nodes always reaches its return statement, and when it
\* has, with num_nodes and steps not negative, the loop has made exactly
\* num_nodes * steps update() calls.
C17_RunsToCompletion ==
    /\ <>(pc = "returned")
    /\ []( (pc = "returned" /\ num_nodes >= 0 /\ steps >= 0)
              => UpdatesPerformed = num_nodes * steps )

\* C17 witness: a run of two nodes and four steps that has returned after
\* eight update() calls.
C17_Witness ==
    /\ pc = "returned"
    /\ num_nodes = 2 /\ steps = 4
    /\ UpdatesPerformed = 8

\* C19: at every point of the run a node's history has one entry per
\* update() of that node; the nodes before idx in the current step have
\* step + 1 entries and every other node has step entries, so two
\* histories never differ in length by more than one.
C19_Lockstep ==
    /\ \A i \in DOMAIN nodes :
          /\ Len(dimension_history[i]) = obs[i].evals
          /\ Len(dimension_history[i]) =
                IF pc = "for_node" /\ i < idx THEN step + 1 ELSE step
    /\ \A i, j \in DOMAIN nodes :
          Len(dimension_history[i]) - Len(dimension_history[j]) \in {-1, 0, 1}

\* C19 witness: in the third step of a two-node run node 0 has been
\* updated and node 1 has not: three entries against two.
C19_Witness ==
    /\ pc = "for_node" /\ num_nodes = 2
    /\ step = 2 /\ idx = 1
    /\ Len(dimension_history[0]) = 3
    /\ Len(dimension_history[1]) = 2

\* C21: at every point of a run, whatever was drawn, the first
\* buffer_limit entries of every node's history are dimension 2.
C21_FirstEntriesLow ==
    \A i \in DOMAIN nodes :
        \A k \in 1 .. Len(dimension_history[i]) :
            k <= nodes[i].buffer_limit => dimension_history[i][k] = LOW

\* C21 witness: a node of default buffer_limit 3 whose history starts with
\* three entries of dimension 2 and has dimension 4 as its fourth.
C21_Witness ==
    \E i \in DOMAIN nodes :
        /\ nodes[i].buffer_limit = DefaultBufferLimit
        /\ Len(dimension_history[i]) >= DefaultBufferLimit + 1
        /\ \A k \in 1 .. DefaultBufferLimit : dimension_history[i][k] = LOW
        /\ dimension_history[i][DefaultBufferLimit + 1] = HIGH

\* The values the generator returned to update() (line 50), in order: the
\* stream without the constructors' draws.
UpdateDraws == SubSeq(Stream, Max(num_nodes, 0) + 1, Len(Stream))

\* The streams of runs that differ from this one only in the workloads
\* the nodes were constructed with (line 62).
OtherInitialWorkloads ==
    { [k \in 1 .. Max(num_nodes, 0) |-> ws[k - 1]] \o UpdateDraws :
          ws \in [Range(num_nodes) -> UniformDraws] }

C14_HighAfterUpdates ==
    \A k \in DOMAIN nodes :
        ( /\ pc \in {"t4d_loop", "t4d_assert"}
          /\ obs[k].evals > nodes[k].buffer_limit )
        => nodes[k].dimension = HIGH

\* C15: at the assertion of line 121, after five update() calls each
\* preceded by node.workload = 0.0, the workload the last call evaluated
\* is the assigned 0.0 and the node is in dimension 2.
C15_ForcedLowResets ==
    \A k \in DOMAIN nodes :
        pc = "r2d_assert" =>
            /\ obs[k].sig = ForcedWorkload
            /\ nodes[k].dimension = LOW

=============================================================================
